---- MODULE Spec2Model ----
(***************************************************************************)
(* The bounded-depth web crawler of devbridge/utils/http_crawler.py:       *)
(* fetch_url_content (one GET with retry and backoff), crawl (the          *)
(* coordinator loop over the queue, the visited set and the semaphore) and *)
(* process_single_url (one fetch-and-expand unit).                         *)
(*                                                                         *)
(* The crawler runs on one asyncio event loop: the code between two await  *)
(* points is atomic, so every action below is the code from one await to   *)
(* the next.  The server, the observer (emit_progress) and the HTML parser *)
(* are the environment: each response, each observer fault and each parse  *)
(* fault is a nondeterministic choice.                                     *)
(***************************************************************************)
EXTENDS Integers, Sequences, FiniteSets, TLC

VARIABLES
    cfg,            \* the arguments of crawl() and the site served (constant after Init)
    pc,             \* the coordinator's position in crawl()
    queue,          \* asyncio.Queue of <<url, depth>>
    crawled_urls,   \* the visited set
    html_contents,  \* CrawlResult.html_contents: url -> body
    errors,         \* CrawlResult.errors: url -> message
    total_bytes,    \* CrawlResult.total_bytes
    robots_parser,  \* None, or the parsed policy
    robots_gets,    \* GETs of robots.txt made so far
    semaphore,      \* value of asyncio.Semaphore(max_concurrent_tasks)
    tasks,          \* every process_single_url task created, in creation order
    active,         \* active_processing_tasks (indices into tasks)
    waiting,        \* the tasks handed to asyncio.wait while the coordinator waits
    cur,            \* the item dequeued and not yet dispatched
    fetch_log       \* history: the outcomes of the GETs of one fetch_url_content call

vars == <<cfg, pc, queue, crawled_urls, html_contents, errors, total_bytes,
          robots_parser, robots_gets, semaphore, tasks, active, waiting, cur, fetch_log>>

-----------------------------------------------------------------------------
(* Bounds of the model *)

MaxDepth == 2
MaxConc == 2
MaxFetchRetry == 3
ScenarioAConc == 5
DiamondDepth == 3

-----------------------------------------------------------------------------
(* URL strings.  A string is the sequence of its syntactic parts, each a    *)
(* token <<kind, text>>; text is a sequence of pieces so that suffix and    *)
(* prefix tests can be computed.  The query part is left out.               *)

Tok(k, v) == [k |-> k, v |-> v]

Str(scheme, netloc, path, frag) ==
    (IF scheme = <<>> THEN <<>> ELSE <<Tok("scheme", scheme)>>)
    \o (IF netloc = <<>> THEN <<>> ELSE <<Tok("netloc", netloc)>>)
    \o (IF path = <<>> THEN <<>> ELSE <<Tok("path", path)>>)
    \o (IF frag = <<>> THEN <<>> ELSE <<Tok("frag", frag)>>)

Part(s, k) ==
    IF \E i \in 1..Len(s) : s[i].k = k
    THEN s[CHOOSE i \in 1..Len(s) : s[i].k = k].v
    ELSE <<>>

urlparse(s) ==
    [scheme |-> Part(s, "scheme"), netloc |-> Part(s, "netloc"),
     path |-> Part(s, "path"), fragment |-> Part(s, "frag")]

urlunparse(p) == Str(p.scheme, p.netloc, p.path, p.fragment)

urljoin(base, url) ==
    LET b == urlparse(base)
        u == urlparse(url)
        scheme == IF u.scheme = <<>> THEN b.scheme ELSE u.scheme
    IN  IF url = <<>> THEN base
        ELSE IF scheme # b.scheme THEN url
        ELSE IF u.netloc # <<>>
             THEN urlunparse([scheme |-> scheme, netloc |-> u.netloc,
                              path |-> u.path, fragment |-> u.fragment])
        ELSE IF u.path = <<>>
             THEN urlunparse([scheme |-> scheme, netloc |-> b.netloc,
                              path |-> b.path, fragment |-> u.fragment])
        ELSE urlunparse([scheme |-> scheme, netloc |-> b.netloc,
                         path |-> u.path, fragment |-> u.fragment])

NON_HTML_EXTENSIONS ==
    {".css", ".js", ".mjs", ".json", ".ts", ".jsx", ".tsx",
     ".png", ".jpg", ".jpeg", ".gif", ".svg", ".webp", ".ico", ".bmp", ".tiff",
     ".woff", ".woff2", ".ttf", ".eot", ".otf",
     ".pdf", ".doc", ".docx", ".xls", ".xlsx", ".ppt", ".pptx",
     ".xml", ".rss", ".atom", ".csv", ".txt", ".rtf", ".md",
     ".yaml", ".yml", ".ini", ".cfg", ".log",
     ".zip", ".tar", ".gz", ".rar", ".7z",
     ".mp4", ".mp3", ".avi", ".mov", ".wmv", ".flv", ".m4a", ".ogg", ".wav",
     ".exe", ".dmg", ".apk", ".bin", ".iso", ".img",
     ".map", ".webmanifest", ".appcache", ".webarchive", ".bak",
     ".sql", ".db", ".sqlite",
     ".php", ".asp", ".aspx", ".jsp", ".cgi"}

\* str.lower() on one piece of a string
Lower(piece) ==
    CASE piece = ".PNG" -> ".png"
      [] piece = "Text/HTML" -> "text/html"
      [] OTHER -> piece

\* any(path.lower().endswith(ext) for ext in NON_HTML_EXTENSIONS)
HasNonHtmlExtension(path) ==
    /\ path # <<>>
    /\ Lower(path[Len(path)]) \in NON_HTML_EXTENSIONS

\* href.startswith('mailto:') or 'tel:' or 'javascript:', or an empty href
IsSkippedHref(href) ==
    \/ href = <<>>
    \/ Part(href, "scheme") \in {<<"mailto">>, <<"tel">>, <<"javascript">>}

\* RobotFileParser.parse: the Disallow prefixes of the "*" entry
ParseRobots(lines) ==
    {lines[i].v : i \in {j \in 1..Len(lines) : lines[j].f = "Disallow"}}

\* RobotFileParser.can_fetch: a path starting with a disallowed prefix is refused
can_fetch(policy, url) ==
    LET path == urlparse(url).path
    IN  ~(path # <<>> /\ path[1] \in policy)

\* len(html_content.encode('utf-8')) for a body given as code points
RECURSIVE Utf8Len(_)
Utf8Len(text) ==
    IF text = <<>> THEN 0
    ELSE (IF Head(text) < 128 THEN 1
          ELSE IF Head(text) < 2048 THEN 2
          ELSE IF Head(text) < 65536 THEN 3 ELSE 4) + Utf8Len(Tail(text))

-----------------------------------------------------------------------------
(* The world the crawler runs against: URLs, pages, responses. *)

Host == <<"h">>
Http == <<"http">>

RootPlain    == Str(Http, Host, <<"/">>, <<>>)               \* http://h/
RootFrag     == Str(Http, Host, <<"/">>, <<"f">>)            \* http://h/#f
RootPrivate  == Str(Http, Host, <<"/private/", "x">>, <<>>)  \* http://h/private/x
RootPng      == Str(Http, Host, <<"/", "i", ".PNG">>, <<>>)  \* http://h/i.PNG
RootNoScheme == Str(<<>>, <<>>, <<"h", "/docs">>, <<>>)      \* h/docs
RootNoHost   == Str(Http, <<>>, <<"/", "a">>, <<>>)          \* http:/a
RootFtp      == Str(<<"ftp">>, Host, <<"/">>, <<>>)          \* ftp://h/

HRoot == Str(<<>>, <<>>, <<"/">>, <<>>)                      \* href="/"
HA    == Str(<<>>, <<>>, <<"/", "a">>, <<>>)                 \* href="/a"
HB    == Str(<<>>, <<>>, <<"/", "b">>, <<>>)                 \* href="/b"
HC    == Str(<<>>, <<>>, <<"/", "c">>, <<>>)                 \* href="/c"
HY    == Str(<<>>, <<>>, <<"/", "y">>, <<>>)                 \* href="/y"
HAf   == Str(<<>>, <<>>, <<"/", "a">>, <<"f">>)              \* href="/a#f"
HTop  == Str(<<>>, <<>>, <<>>, <<"top">>)                    \* href="#top"
HPng  == Str(<<>>, <<>>, <<"/", "i", ".PNG">>, <<>>)         \* href="/i.PNG"
HPriv == Str(<<>>, <<>>, <<"/private/", "x">>, <<>>)         \* href="/private/x"
HPrivPng == Str(<<>>, <<>>, <<"/private/", "x", ".PNG">>, <<>>)  \* href="/private/x.PNG"
HOff  == Str(Http, <<"o">>, <<"/">>, <<>>)                   \* href="http://o/"
HMail == Str(<<"mailto">>, <<>>, <<"x">>, <<>>)              \* href="mailto:x"

PRoot == <<"/">>
PA == <<"/", "a">>
PB == <<"/", "b">>
PC == <<"/", "c">>

\* A site maps the path of a page to the hrefs of its <a> tags, in document order.
\* A configuration names its site.
SiteCycle   == (PRoot :> <<HA, HB>>)       @@ (PA :> <<HB, HRoot>>)   @@ (PB :> <<HA>>)
SiteFilters == (PRoot :> <<HA, HB, HOff>>) @@ (PA :> <<HPng, HPriv, HPrivPng>>) @@ (PB :> <<HMail, HAf>>)
SiteAnchors == (PRoot :> <<HTop, HAf, HA>>) @@ (PA :> <<HRoot>>)
\* /y is two links from the root through /b and three through /a and /c
SiteDiamond ==
    (PRoot :> <<HA, HB>>) @@ (PA :> <<HC>>) @@ (PC :> <<HY>>) @@ (PB :> <<HY>>)

\* The crawls checked: a root_url and the site it is served from
Scenario(root_url, site) == [root_url |-> root_url, site |-> site]

Scenarios ==
    {Scenario(RootPlain, "cycle"), Scenario(RootPlain, "filters"),
     Scenario(RootFrag, "anchors"), Scenario(RootPrivate, "filters"),
     Scenario(RootPng, "cycle"), Scenario(RootNoScheme, "cycle"),
     Scenario(RootNoHost, "cycle"), Scenario(RootFtp, "cycle")}

Site(name) ==
    CASE name = "cycle" -> SiteCycle
      [] name = "filters" -> SiteFilters
      [] name = "diamond" -> SiteDiamond
      [] OTHER -> SiteAnchors

\* The <a href> values of the document served at a path
LinksOf(name, path) == IF path \in DOMAIN Site(name) THEN Site(name)[path] ELSE <<>>

\* The text of the document served at a path, as code points
PageText(path) ==
    CASE path = PRoot -> <<60, 233>>
      [] path = PA -> <<8364>>
      [] OTHER -> <<104, 105>>

Resp(status, ctype) == [kind |-> "response", status |-> status, ctype |-> ctype]
Fault(kind) == [kind |-> kind, status |-> 0, ctype |-> <<>>]

CtHtml  == <<"Text/HTML", "; charset=utf-8">>
CtPlain == <<"image/png">>

\* What one GET of a page can come to, during a crawl
CrawlResponses ==
    {Resp(200, CtHtml), Resp(200, CtPlain), Resp(204, CtHtml), Resp(503, CtHtml)}

\* What one GET can come to, for the fetcher alone
FetchResponses ==
    {Resp(s, CtHtml) : s \in {200, 204, 400, 404, 408, 429, 500, 503}}
    \cup {Fault("timeout"), Fault("conn"), Fault("client"), Fault("other")}

RobotsFiles ==
    {<<[f |-> "User-agent", v |-> "*"], [f |-> "Disallow", v |-> "/private/"]>>, <<>>}

BackoffBases == {300, 500}

\* retry_limit of a crawl: no retry, or two retries
RetryLimits == {0, 2}

-----------------------------------------------------------------------------
(* fetch_url_content *)

NoRet == [status |-> 0, ctype |-> <<>>, body |-> <<>>, msg |-> <<>>]

NewUnit(url, depth) ==
    [url |-> url, depth |-> depth, pc |-> "start",
     attempt |-> 0, err |-> 500, errmsg |-> "Unknown fetch error",
     sleeps |-> <<>>, ret |-> NoRet, todo |-> <<>>,
     raised |-> FALSE]

\* response.raise_for_status(): a status of 400 or more raises ClientResponseError
RaisesForStatus(r) == r.kind = "response" /\ r.status >= 400

\* line 74: a client error that ends the retry loop
BreaksRetryLoopOn400Only(status) == status = 400

BreaksRetryLoop(status) ==
    400 <= status /\ status < 500 /\ status # 408 /\ status # 429

\* status_code_for_error set by the except clause that catches the outcome
ErrorStatusAlways500(r) == 500

ErrorStatus(r) ==
    CASE r.kind = "response" -> r.status
      [] r.kind = "timeout" -> 408
      [] r.kind = "conn" -> 503
      [] r.kind = "client" -> 503
      [] OTHER -> 500

ErrorMessage(r) ==
    CASE r.kind = "response" -> "HTTP Error"
      [] r.kind = "timeout" -> "Request Timeout"
      [] r.kind = "conn" -> "Client Connection Error"
      [] r.kind = "client" -> "Client Error"
      [] OTHER -> "Generic Fetch Error"

\* line 90: whether a failed attempt is followed by a sleep and another attempt
MoreAttemptsLeftOffByOne(attempt, retry_limit) == attempt <= retry_limit

MoreAttemptsLeft(attempt, retry_limit) == attempt < retry_limit

\* line 91, in milliseconds
SleepDuration(backoff_base_ms, attempt) == backoff_base_ms * (2 ^ attempt)

\* line 100: the return after the loop was broken or never entered
ReturnAfterLoop(u) ==
    [u EXCEPT !.pc = "fetched",
              !.ret = [status |-> u.err, ctype |-> <<>>, body |-> <<>>,
                       msg |-> <<u.errmsg, "for url">>]]

\* line 55: entering the retry loop
FetchBegin(u, retry_limit) ==
    IF retry_limit + 1 > 0
    THEN [u EXCEPT !.pc = "attempt", !.attempt = 0]
    ELSE ReturnAfterLoop(u)

\* lines 56-97: one GET came to r
FetchAttempt(u, r, retry_limit, backoff_base_ms) ==
    IF r.kind = "response" /\ ~RaisesForStatus(r)
    THEN [u EXCEPT !.pc = "fetched",
                      !.ret = [status |-> r.status, ctype |-> r.ctype,
                               body |-> urlparse(u.url).path, msg |-> <<>>]]
    ELSE LET failed == [u EXCEPT !.err = ErrorStatus(r), !.errmsg = ErrorMessage(r)] IN
         IF r.kind = "response" /\ BreaksRetryLoop(r.status)
         THEN ReturnAfterLoop(failed)
         ELSE IF MoreAttemptsLeft(u.attempt, retry_limit)
         THEN [failed EXCEPT !.pc = "backoff",
                             !.sleeps = Append(u.sleeps,
                                               SleepDuration(backoff_base_ms, u.attempt))]
         ELSE [failed EXCEPT !.pc = "fetched",
                             !.ret = [status |-> failed.err, ctype |-> <<>>, body |-> <<>>,
                                      msg |-> <<failed.errmsg, "after attempts">>]]

\* line 93 returns: the next iteration of the loop, or the end of the range
FetchWake(u, retry_limit) ==
    IF u.attempt + 1 < retry_limit + 1
    THEN [u EXCEPT !.pc = "attempt", !.attempt = u.attempt + 1]
    ELSE ReturnAfterLoop(u)

-----------------------------------------------------------------------------
(* crawl: the coordinator *)

None == [present |-> FALSE, disallow |-> {}]

\* line 137: the root must have a scheme and a host
IsAbsoluteSchemeOnly(p) == p.scheme # <<>>

IsAbsolute(p) == p.scheme # <<>> /\ p.netloc # <<>>

\* lines 147-148
RobotsUrl(root_url) ==
    urlunparse([urlparse(root_url) EXCEPT !.path = <<"/robots.txt">>, !.fragment = <<>>])

\* The bound given to Semaphore() (line 168) and compared in the loop guard (line 176)
ConcurrencyLimitPlusOne == cfg.max_concurrent_tasks + 1

ConcurrencyLimit == cfg.max_concurrent_tasks

\* What a GET can come to: a crawl is checked against the page responses, a
\* lone call of the fetcher against every outcome the fetcher tells apart
Responses == IF pc = "fetch_call" THEN FetchResponses ELSE CrawlResponses

\* An await of emit_progress returns or raises; without an observer nothing is called
EmitOutcomes == IF cfg.observer THEN {"returns", "raises"} ELSE {"returns"}

\* "text/html" in content_type.lower()
IsHtmlAlways(ctype) == TRUE

IsHtml(ctype) == \E i \in 1..Len(ctype) : Lower(ctype[i]) = "text/html"

Item(url, depth) == [url |-> url, depth |-> depth]

Config(sc, d, n, rl, robots, obs) ==
    [root_url |-> sc.root_url, site |-> sc.site, max_depth |-> d,
     max_concurrent_tasks |-> n, retry_limit |-> rl, backoff_base_ms |-> 500,
     respect_robots_txt |-> robots, observer |-> obs]

\* Retries are exercised on the plain root of the cycle site; the other crawls
\* give up after one attempt
RetryLimitsOf(sc) ==
    IF sc = Scenario(RootPlain, "cycle") THEN RetryLimits ELSE {0}

\* A root page that links to two pages on its host and to one off it, crawled
\* one level deep with more slots than pages
ScenarioAConfigs ==
    {Config(Scenario(RootPlain, "filters"), 1, ScenarioAConc, 0, robots, obs) :
       robots \in BOOLEAN, obs \in BOOLEAN}

Configs ==
    UNION {{Config(sc, d, n, rl, robots, obs) :
              d \in 0..MaxDepth, n \in 0..MaxConc, rl \in RetryLimitsOf(sc),
              robots \in BOOLEAN, obs \in BOOLEAN} :
           sc \in Scenarios}
    \cup ScenarioAConfigs

Init ==
    /\ cfg \in Configs
    /\ pc = "init"
    /\ queue = <<>>
    /\ crawled_urls = {}
    /\ html_contents = <<>>
    /\ errors = <<>>
    /\ total_bytes = 0
    /\ robots_parser = None
    /\ robots_gets = 0
    /\ semaphore = 0
    /\ tasks = <<>>
    /\ active = {}
    /\ waiting = {}
    /\ cur = <<>>
    /\ fetch_log = <<>>

\* lines 162-171: the root is enqueued and marked visited, the semaphore is created
Seed ==
    /\ queue' = <<Item(cfg.root_url, 0)>>
    /\ crawled_urls' = {cfg.root_url}
    /\ semaphore' = ConcurrencyLimit
    /\ pc' = "loop"

\* lines 130-148: validation; an invalid root returns, a valid one goes on to
\* robots.txt (the GET is issued) or straight to the loop
Validate ==
    /\ pc = "init"
    /\ IF ~IsAbsolute(urlparse(cfg.root_url))
       THEN /\ \E e \in EmitOutcomes :
                 IF e = "raises"
                 THEN pc' = "raised" /\ errors' = errors
                 ELSE /\ pc' = "returned"
                      /\ errors' = (cfg.root_url :> "Invalid root_url") @@ errors
            /\ UNCHANGED <<queue, crawled_urls, semaphore, robots_gets>>
       ELSE IF cfg.respect_robots_txt
       THEN /\ pc' = "robots"
            /\ robots_gets' = robots_gets + 1
            /\ UNCHANGED <<queue, crawled_urls, semaphore, errors>>
       ELSE /\ Seed
            /\ UNCHANGED <<robots_gets, errors>>
    /\ UNCHANGED <<cfg, html_contents, total_bytes, robots_parser, tasks, active,
                   waiting, cur, fetch_log>>

\* lines 151-155: the policy built from the outcome r of the one GET of
\* robots.txt and the lines of its body
RobotsPolicy(r, lines) ==
    LET f == FetchAttempt(FetchBegin(NewUnit(RobotsUrl(cfg.root_url), 0), 0),
                          r, 0, cfg.backoff_base_ms).ret
        r_content == IF f.msg = <<>> THEN lines ELSE f.msg
    IN  IF f.status = 200 /\ r_content # <<>>
        THEN [present |-> TRUE, disallow |-> ParseRobots(r_content)]
        ELSE None

\* lines 149-171: the robots.txt fetch (one attempt) came to r with the given lines
RobotsFetched ==
    /\ pc = "robots"
    /\ \E r \in Responses, lines \in RobotsFiles, e1 \in EmitOutcomes, e2 \in EmitOutcomes :
             /\ robots_parser' = RobotsPolicy(r, lines)
             /\ IF e1 = "raises" /\ e2 = "raises"
                THEN pc' = "raised" /\ UNCHANGED <<queue, crawled_urls, semaphore>>
                ELSE Seed
    /\ UNCHANGED <<cfg, html_contents, errors, total_bytes, robots_gets, tasks, active,
                   waiting, cur, fetch_log>>

\* line 176
LoopGuardQueueOnly == queue # <<>>

LoopGuard == queue # <<>> /\ Cardinality(active) < ConcurrencyLimit

\* lines 176-196: one item is dequeued and checked
Dequeue ==
    /\ pc = "loop"
    /\ LoopGuard
    /\ LET item == Head(queue) IN
       /\ queue' = Tail(queue)
       /\ IF robots_parser.present /\ ~can_fetch(robots_parser.disallow, item.url)
          THEN /\ \E e \in EmitOutcomes :
                    IF e = "raises"
                    THEN pc' = "raised" /\ errors' = errors
                    ELSE /\ pc' = "loop"
                         /\ errors' = (item.url :> "Skipped by robots.txt") @@ errors
               /\ cur' = cur
          ELSE IF HasNonHtmlExtension(urlparse(item.url).path)
          THEN /\ \E e \in EmitOutcomes :
                    IF e = "raises"
                    THEN pc' = "raised" /\ errors' = errors
                    ELSE /\ pc' = "loop"
                         /\ errors' = (item.url :> "Skipped due to file extension") @@ errors
               /\ cur' = cur
          ELSE /\ pc' = "acquire"
               /\ cur' = <<item>>
               /\ errors' = errors
    /\ UNCHANGED <<cfg, crawled_urls, html_contents, total_bytes, robots_parser,
                   robots_gets, semaphore, tasks, active, waiting, fetch_log>>

\* lines 199-209: the slot is acquired (the await blocks while the value is 0)
\* and the task is created
Acquire ==
    /\ pc = "acquire"
    /\ semaphore > 0
    /\ semaphore' = semaphore - 1
    /\ tasks' = Append(tasks, NewUnit(cur[1].url, cur[1].depth))
    /\ active' = active \cup {Len(tasks) + 1}
    /\ cur' = <<>>
    /\ pc' = "loop"
    /\ UNCHANGED <<cfg, queue, crawled_urls, html_contents, errors, total_bytes,
                   robots_parser, robots_gets, waiting, fetch_log>>

\* lines 211-212: nothing queued and nothing active: crawl returns the result
ReturnWhenQueueEmpty ==
    /\ pc = "loop"
    /\ ~LoopGuard
    /\ queue = <<>>
    /\ pc' = "returned"
    /\ UNCHANGED <<cfg, queue, crawled_urls, html_contents, errors, total_bytes,
                   robots_parser, robots_gets, semaphore, tasks, active, waiting, cur, fetch_log>>

Return ==
    /\ pc = "loop"
    /\ ~LoopGuard
    /\ active = {} /\ queue = <<>>
    /\ pc' = "returned"
    /\ UNCHANGED <<cfg, queue, crawled_urls, html_contents, errors, total_bytes,
                   robots_parser, robots_gets, semaphore, tasks, active, waiting, cur, fetch_log>>

\* lines 214-216: asyncio.wait(active_processing_tasks, FIRST_COMPLETED) is called
WaitBegin ==
    /\ pc = "loop"
    /\ ~LoopGuard
    /\ active # {}
    /\ pc' = "wait"
    /\ waiting' = active
    /\ UNCHANGED <<cfg, queue, crawled_urls, html_contents, errors, total_bytes,
                   robots_parser, robots_gets, semaphore, tasks, active, cur, fetch_log>>

\* line 216 returns: a waited task is done; its discard callback, registered
\* first (line 209), has run before the waiter is woken
WaitEnd ==
    /\ pc = "wait"
    /\ \E t \in waiting : tasks[t].pc = "done" /\ t \notin active
    /\ pc' = "loop"
    /\ waiting' = {}
    /\ UNCHANGED <<cfg, queue, crawled_urls, html_contents, errors, total_bytes,
                   robots_parser, robots_gets, semaphore, tasks, active, cur, fetch_log>>

\* lines 218-220: nothing active, something queued: sleep 0.01 and look again
SleepPoll ==
    /\ pc = "loop"
    /\ ~LoopGuard
    /\ active = {} /\ queue # <<>>
    /\ pc' = "sleep"
    /\ UNCHANGED <<cfg, queue, crawled_urls, html_contents, errors, total_bytes,
                   robots_parser, robots_gets, semaphore, tasks, active, waiting, cur, fetch_log>>

SleepEnd ==
    /\ pc = "sleep"
    /\ pc' = "loop"
    /\ UNCHANGED <<cfg, queue, crawled_urls, html_contents, errors, total_bytes,
                   robots_parser, robots_gets, semaphore, tasks, active, waiting, cur, fetch_log>>

\* line 209: the done callback discards a finished task from the active set
DoneCallback(i) ==
    /\ tasks[i].pc = "done"
    /\ i \in active
    /\ active' = active \ {i}
    /\ UNCHANGED <<cfg, pc, queue, crawled_urls, html_contents, errors, total_bytes,
                   robots_parser, robots_gets, semaphore, tasks, waiting, cur, fetch_log>>

-----------------------------------------------------------------------------
(* process_single_url: one fetch-and-expand unit.  A unit runs from one     *)
(* await to the next without interruption; with no observer the only awaits *)
(* are the GET and the backoff sleep.                                       *)

\* line 268: a fetched page is expanded only below max_depth
ExpandAllowedInclusive(depth, max_depth) == depth <= max_depth

ExpandAllowed(depth, max_depth) == depth < max_depth

\* The structures shared by the units, as one value
Shared ==
    [errs |-> errors, htmls |-> html_contents, bytes |-> total_bytes,
     q |-> queue, seen |-> crawled_urls]

Out(u, sh) == [u |-> u, sh |-> sh]

WithError(sh, url, message) == [sh EXCEPT !.errs = (url :> message) @@ sh.errs]

\* lines 300-301: the unit ends (finally releases the slot: see Commit); of its
\* locals only the status and the Content-Type that the fetcher returned are kept
Finished(u, sh) ==
    Out([NewUnit(u.url, u.depth) EXCEPT
            !.pc = "done", !.raised = u.raised,
            !.ret = [NoRet EXCEPT !.status = u.ret.status, !.ctype = u.ret.ctype]], sh)

\* lines 297-299: the except clause records the fault, then awaits the observer
HandledUnrecorded(u, sh) ==
    IF cfg.observer THEN Out([u EXCEPT !.pc = "emit_handler"], sh)
    ELSE Finished(u, sh)

Handled(u, sh) ==
    LET sh2 == WithError(sh, u.url, "Processing Error") IN
    IF cfg.observer THEN Out([u EXCEPT !.pc = "emit_handler"], sh2)
    ELSE Finished(u, sh2)

\* line 283: the link is on the root's host and its scheme is http or https
SameSiteAnyHost(parsed_link) == parsed_link.scheme \in {<<"http">>, <<"https">>}

SameSite(parsed_link) ==
    /\ parsed_link.netloc = urlparse(cfg.root_url).netloc
    /\ parsed_link.scheme \in {<<"http">>, <<"https">>}

\* lines 275-293: what the loop body does with one href
LinkKindUnfiltered(u, href, sh) ==
    LET parsed_link == urlparse(urljoin(u.url, href))
        normalized_link == urlunparse([parsed_link EXCEPT !.fragment = <<>>])
    IN  IF IsSkippedHref(href) THEN "skip"
        ELSE IF ~SameSite(parsed_link) THEN "skip"
        ELSE IF normalized_link \notin sh.seen THEN "enqueue"
        ELSE "skip"

LinkKind(u, href, sh) ==
    LET parsed_link == urlparse(urljoin(u.url, href))
        normalized_link == urlunparse([parsed_link EXCEPT !.fragment = <<>>])
    IN  IF IsSkippedHref(href) THEN "skip"
        ELSE IF HasNonHtmlExtension(parsed_link.path) THEN "extension"
        ELSE IF ~SameSite(parsed_link) THEN "skip"
        ELSE IF robots_parser.present /\ ~can_fetch(robots_parser.disallow, normalized_link)
             THEN "robots"
        ELSE IF normalized_link \notin sh.seen THEN "enqueue"
        ELSE "skip"

NormalizedLink(u, href) ==
    urlunparse([urlparse(urljoin(u.url, href)) EXCEPT !.fragment = <<>>])

\* line 288: the entry of a discovered link that robots.txt refuses
RobotsRefused(u, href, sh) ==
    WithError(sh, NormalizedLink(u, href), "Skipped by robots.txt (discovered link)")

\* lines 291-293: an unvisited link is marked visited and enqueued one level down
EnqueuedUnmarked(u, href, sh) ==
    [sh EXCEPT !.q = Append(sh.q, Item(NormalizedLink(u, href), u.depth + 1))]

EnqueuedAtFront(u, href, sh) ==
    [sh EXCEPT !.seen = sh.seen \cup {NormalizedLink(u, href)},
               !.q = <<Item(NormalizedLink(u, href), u.depth + 1)>> \o sh.q]

Enqueued(u, href, sh) ==
    [sh EXCEPT !.seen = sh.seen \cup {NormalizedLink(u, href)},
               !.q = Append(sh.q, Item(NormalizedLink(u, href), u.depth + 1))]

\* lines 270-293: the loop over u.todo, run until it ends or reaches an await
\* (the observer call of a link skipped for its extension or by robots.txt)
RECURSIVE Expanded(_, _)
Expanded(u, sh) ==
    IF u.todo = <<>> THEN Finished(u, sh)
    ELSE LET href == Head(u.todo)
             kind == LinkKind(u, href, sh)
             rest == [u EXCEPT !.todo = Tail(u.todo)]
         IN  IF kind \in {"extension", "robots"} /\ cfg.observer
             THEN Out([u EXCEPT !.pc = "expand"], sh)
             ELSE IF kind = "robots" THEN Expanded(rest, RobotsRefused(u, href, sh))
             ELSE IF kind = "enqueue" THEN Expanded(rest, Enqueued(u, href, sh))
             ELSE Expanded(rest, sh)

\* BeautifulSoup(html_content, 'lxml') returns the document or raises
ParseOutcomes == {"parsed", "raises"}

\* lines 268-293, from the depth test on
AfterProgress(u, sh) ==
    IF ~ExpandAllowed(u.depth, cfg.max_depth) THEN {Finished(u, sh)}
    ELSE {IF p = "raises" THEN Handled(u, sh)
          ELSE Expanded([u EXCEPT !.todo = LinksOf(cfg.site, u.ret.body)], sh)
          : p \in ParseOutcomes}

\* line 261: len(html_content.encode('utf-8')) for the body served at a path
BodyChars(body) == Len(PageText(body))

BodyBytes(body) == Utf8Len(PageText(body))

\* lines 252-266: the code that follows the return of fetch_url_content, up to
\* the next await; the locals of the fetcher are gone
AfterFetch(f, sh) ==
    LET u == [f EXCEPT !.attempt = 0, !.err = 500, !.errmsg = "Unknown fetch error"] IN
    IF f.pc # "fetched" THEN {Out(f, sh)}
    ELSE IF ~IsHtml(u.ret.ctype)
    THEN IF cfg.observer THEN {Out([u EXCEPT !.pc = "emit_skip"], sh)}
         ELSE {Finished(u, WithError(sh, u.url, "Skipped: Not HTML"))}
    ELSE IF u.ret.status = 200
    THEN LET sh2 == [sh EXCEPT !.htmls = (u.url :> u.ret.body) @@ sh.htmls,
                               !.bytes = sh.bytes + BodyBytes(u.ret.body)]
         IN  IF cfg.observer THEN {Out([u EXCEPT !.pc = "emit_progress"], sh2)}
             ELSE AfterProgress(u, sh2)
    ELSE LET sh2 == WithError(sh, u.url, "HTTP Error")
         IN  IF cfg.observer THEN {Out([u EXCEPT !.pc = "emit_error"], sh2)}
             ELSE {Finished(u, sh2)}

\* One step of unit i takes effect; a unit that ends releases its slot (line 301)
CommitWithoutReleaseOnFault(i, o) ==
    /\ tasks' = [tasks EXCEPT ![i] = o.u]
    /\ errors' = o.sh.errs
    /\ html_contents' = o.sh.htmls
    /\ total_bytes' = o.sh.bytes
    /\ queue' = o.sh.q
    /\ crawled_urls' = o.sh.seen
    /\ semaphore' = IF o.u.pc = "done" /\ ~o.u.raised THEN semaphore + 1 ELSE semaphore
    /\ UNCHANGED <<cfg, pc, robots_parser, robots_gets, active, waiting, cur, fetch_log>>

Commit(i, o) ==
    /\ tasks' = [tasks EXCEPT ![i] = o.u]
    /\ errors' = o.sh.errs
    /\ html_contents' = o.sh.htmls
    /\ total_bytes' = o.sh.bytes
    /\ queue' = o.sh.q
    /\ crawled_urls' = o.sh.seen
    /\ semaphore' = IF o.u.pc = "done" THEN semaphore + 1 ELSE semaphore
    /\ UNCHANGED <<cfg, pc, robots_parser, robots_gets, active, waiting, cur, fetch_log>>

\* lines 244-251: the first observer call, then the first GET is issued
UnitStart(i) ==
    /\ tasks[i].pc = "start"
    /\ \E o \in (IF cfg.observer THEN {Handled(tasks[i], Shared)} ELSE {})
                \cup AfterFetch(FetchBegin(tasks[i], cfg.retry_limit), Shared) :
         Commit(i, o)

\* lines 57-97: the GET in flight comes to an outcome
UnitAttempt(i) ==
    /\ tasks[i].pc = "attempt"
    /\ \E r \in Responses :
         \E o \in AfterFetch(FetchAttempt(tasks[i], r, cfg.retry_limit, cfg.backoff_base_ms),
                             Shared) :
           Commit(i, o)

\* line 93: the backoff sleep ends
UnitWake(i) ==
    /\ tasks[i].pc = "backoff"
    /\ \E o \in AfterFetch(FetchWake(tasks[i], cfg.retry_limit), Shared) : Commit(i, o)

\* lines 255-257: the observer call of a non-HTML response, then the skip entry
UnitSkipEmit(i) ==
    /\ tasks[i].pc = "emit_skip"
    /\ \E o \in {Handled(tasks[i], Shared),
                 Finished(tasks[i], WithError(Shared, tasks[i].url, "Skipped: Not HTML"))} :
         Commit(i, o)

\* lines 262-270: the progress event, then the page is expanded if depth allows
UnitProgressEmit(i) ==
    /\ tasks[i].pc = "emit_progress"
    /\ \E o \in {Handled(tasks[i], Shared)} \cup AfterProgress(tasks[i], Shared) :
         Commit(i, o)

\* lines 280-281 and 287-289: the observer call of a skipped link returns or
\* raises, and the loop goes on
UnitExpand(i) ==
    /\ tasks[i].pc = "expand"
    /\ LET u == tasks[i]
           href == Head(u.todo)
           rest == [u EXCEPT !.todo = Tail(u.todo)]
           after == IF LinkKind(u, href, Shared) = "robots"
                    THEN RobotsRefused(u, href, Shared) ELSE Shared
       IN  \E o \in {Handled(rest, Shared), Expanded(rest, after)} : Commit(i, o)

\* lines 295-296: the error event of a response that is HTML and not 200
UnitErrorEmit(i) ==
    /\ tasks[i].pc = "emit_error"
    /\ \E o \in {Handled(tasks[i], Shared), Finished(tasks[i], Shared)} : Commit(i, o)

\* line 299: the observer call of the except clause; a fault here ends the task
\* with an exception that nobody retrieves
UnitHandlerEmit(i) ==
    /\ tasks[i].pc = "emit_handler"
    /\ \E raises \in BOOLEAN :
         Commit(i, Finished([tasks[i] EXCEPT !.raised = raises], Shared))

Unit(i) ==
    \/ UnitStart(i)
    \/ UnitAttempt(i)
    \/ UnitWake(i)
    \/ UnitSkipEmit(i)
    \/ UnitProgressEmit(i)
    \/ UnitExpand(i)
    \/ UnitErrorEmit(i)
    \/ UnitHandlerEmit(i)

Coordinator ==
    \/ Validate
    \/ RobotsFetched
    \/ Dequeue
    \/ Acquire
    \/ Return
    \/ WaitBegin
    \/ WaitEnd
    \/ SleepPoll
    \/ SleepEnd

Next ==
    \/ Coordinator
    \/ \E i \in 1..Len(tasks) : Unit(i)
    \/ \E i \in 1..Len(tasks) : DoneCallback(i)

Spec == Init /\ [][Next]_vars

\* The event loop runs a ready coroutine; GETs and sleeps come to an end
FairSpec == Spec /\ WF_vars(Next)

-----------------------------------------------------------------------------
(* fetch_url_content called on its own: one call, every outcome of every GET *)

FetchConfigs ==
    {[Config(Scenario(RootPlain, "cycle"), 0, 1, rl, FALSE, FALSE)
        EXCEPT !.backoff_base_ms = b] :
       rl \in (-1)..MaxFetchRetry, b \in BackoffBases}

FetchInit ==
    /\ cfg \in FetchConfigs
    /\ pc = "fetch_call"
    /\ queue = <<>>
    /\ crawled_urls = {}
    /\ html_contents = <<>>
    /\ errors = <<>>
    /\ total_bytes = 0
    /\ robots_parser = None
    /\ robots_gets = 0
    /\ semaphore = 0
    /\ tasks = <<FetchBegin(NewUnit(cfg.root_url, 0), cfg.retry_limit)>>
    /\ active = {}
    /\ waiting = {}
    /\ cur = <<>>
    /\ fetch_log = <<>>

\* lines 57-97: the GET in flight comes to an outcome
FetchCallAttempt ==
    /\ tasks[1].pc = "attempt"
    /\ \E r \in Responses :
         /\ tasks' = <<FetchAttempt(tasks[1], r, cfg.retry_limit, cfg.backoff_base_ms)>>
         /\ fetch_log' = Append(fetch_log, r)
    /\ UNCHANGED <<cfg, pc, queue, crawled_urls, html_contents, errors, total_bytes,
                   robots_parser, robots_gets, semaphore, active, waiting, cur>>

\* line 93: the backoff sleep ends
FetchCallWake ==
    /\ tasks[1].pc = "backoff"
    /\ tasks' = <<FetchWake(tasks[1], cfg.retry_limit)>>
    /\ UNCHANGED <<cfg, pc, queue, crawled_urls, html_contents, errors, total_bytes,
                   robots_parser, robots_gets, semaphore, active, waiting, cur, fetch_log>>

FetchNext == FetchCallAttempt \/ FetchCallWake

FetchSpec == FetchInit /\ [][FetchNext]_vars

-----------------------------------------------------------------------------
(* crawl of the diamond site: no robots.txt, no observer, one attempt per URL *)

DiamondConfigs ==
    {Config(Scenario(RootPlain, "diamond"), d, n, 0, FALSE, FALSE) :
       d \in 1..DiamondDepth, n \in 1..MaxConc}

DiamondInit ==
    /\ cfg \in DiamondConfigs
    /\ pc = "init"
    /\ queue = <<>>
    /\ crawled_urls = {}
    /\ html_contents = <<>>
    /\ errors = <<>>
    /\ total_bytes = 0
    /\ robots_parser = None
    /\ robots_gets = 0
    /\ semaphore = 0
    /\ tasks = <<>>
    /\ active = {}
    /\ waiting = {}
    /\ cur = <<>>
    /\ fetch_log = <<>>

\* The steps such a crawl can take
DiamondNext ==
    \/ Validate
    \/ Dequeue
    \/ Acquire
    \/ Return
    \/ WaitBegin
    \/ WaitEnd
    \/ \E i \in 1..Len(tasks) : UnitStart(i)
    \/ \E i \in 1..Len(tasks) : UnitAttempt(i)
    \/ \E i \in 1..Len(tasks) : DoneCallback(i)

DiamondSpec == DiamondInit /\ [][DiamondNext]_vars

-----------------------------------------------------------------------------
(* Properties *)

Units == 1..Len(tasks)

\* The units dispatched and not yet completed
InFlight == {i \in Units : tasks[i].pc # "done"}

\* A URL with its fragment stripped
Normalized(url) == urlunparse([urlparse(url) EXCEPT !.fragment = <<>>])

LacksSchemeOrHost(url) == Part(url, "scheme") = <<>> \/ Part(url, "netloc") = <<>>

WellFormedRoot == ~LacksSchemeOrHost(cfg.root_url)

\* C1: in every reachable state of a crawl the number of units dispatched and
\* not yet completed is at most max_concurrent_tasks.
C1_InFlightBounded == Cardinality(InFlight) <= cfg.max_concurrent_tasks

\* Two units run at once under a limit of two.
C1_Witness ==
    /\ cfg.max_concurrent_tasks = 2
    /\ Cardinality(InFlight) = 2
    /\ \E i \in InFlight : tasks[i].pc = "attempt"

\* C2: no URL is a key of both html_contents and errors, also after a fault in
\* expansion or in the observer once the body is recorded.
C2_Disjoint == (DOMAIN html_contents) \cap (DOMAIN errors) = {}

\* C3: no two units are ever dispatched for the same fragment-stripped URL.
C3_OneUnitPerNormalizedUrl ==
    \A i \in Units : \A j \in Units :
        i # j => Normalized(tasks[i].url) # Normalized(tasks[j].url)

\* C4: with a well-formed root and a concurrency limit of at least 1, the
\* coordinator eventually finds the queue empty and nothing in flight, and
\* crawl returns.
C4_EventuallyReturns ==
    (WellFormedRoot /\ cfg.max_concurrent_tasks >= 1) => <>(pc = "returned")

\* C5: for a well-formed root, crawl never propagates an exception.
C5_NeverRaises == WellFormedRoot => pc # "raised"

\* Every task that is queued, dequeued or dispatched
AllItems ==
    {queue[k] : k \in 1..Len(queue)} \cup {cur[k] : k \in 1..Len(cur)}
    \cup {Item(tasks[i].url, tasks[i].depth) : i \in Units}

C6_Depths ==
    \A x \in AllItems :
        /\ 0 <= x.depth /\ x.depth <= cfg.max_depth
        /\ x.url = cfg.root_url => x.depth = 0

C6_Enqueue ==
    \A k \in (Len(queue) + 1)..Len(queue') :
        IF tasks = <<>> THEN queue'[k] = Item(cfg.root_url, 0)
        ELSE \E i \in Units : tasks'[i] # tasks[i] /\ queue'[k].depth = tasks[i].depth + 1

\* C6: every task queued or dispatched has 0 <= depth <= max_depth, the root
\* has depth 0, and a task created by expansion is one level below the task
\* whose page held the link.
C6_DepthBounded == [](C6_Depths) /\ [][C6_Enqueue]_vars

\* A link found on a page of depth 1 is queued at depth 2 = max_depth.
C6_Witness ==
    /\ cfg.max_depth = 2
    /\ \E k \in 1..Len(queue) : queue[k].depth = 2
    /\ \E i \in Units : tasks[i].depth = 1

\* C7: with max_depth = 0 only the root is dispatched, and nothing that comes
\* from a link appears in html_contents, in errors, in the queue or in the
\* visited set.
C7_DepthZeroRootOnly ==
    cfg.max_depth = 0 =>
        /\ DOMAIN html_contents \subseteq {cfg.root_url}
        /\ DOMAIN errors \subseteq {cfg.root_url}
        /\ Len(tasks) <= 1
        /\ \A i \in Units : tasks[i].url = cfg.root_url
        /\ \A k \in 1..Len(queue) : queue[k].url = cfg.root_url
        /\ crawled_urls \subseteq {cfg.root_url}

\* The root page has links, was fetched and recorded, and the crawl is over.
C7_Witness ==
    /\ cfg.max_depth = 0
    /\ pc = "returned"
    /\ cfg.root_url \in DOMAIN html_contents
    /\ LinksOf(cfg.site, html_contents[cfg.root_url]) # <<>>

Doubling(sleeps) ==
    \A k \in 2..Len(sleeps) : sleeps[k] = 2 * sleeps[k - 1] /\ sleeps[k] > sleeps[k - 1]

\* C9: a unit whose fetch failed K times (1 <= K < retry_limit), slept between
\* the attempts and then got a 200 HTML response ends with its URL in
\* html_contents and not in errors, the delays doubling.
C9_RetriedThenFetched ==
    [][\A i \in Units :
         (/\ tasks[i].pc # "done" /\ tasks'[i].pc = "done"
          /\ tasks[i].ret.status = 200 /\ IsHtml(tasks[i].ret.ctype)
          /\ Len(tasks[i].sleeps) >= 1
          /\ Len(tasks[i].sleeps) < cfg.retry_limit)
         => /\ tasks[i].url \in DOMAIN html_contents'
            /\ tasks[i].url \notin DOMAIN errors'
            /\ Doubling(tasks[i].sleeps)]_vars

\* GETs started so far by the lone fetch call
GetsStarted == Len(fetch_log) + (IF tasks[1].pc = "attempt" THEN 1 ELSE 0)

\* The outcomes after which the specification has the fetcher try again
RetriedPerSpec(r) ==
    \/ r.kind \in {"timeout", "conn"}
    \/ r.kind = "response" /\ (r.status >= 500 \/ r.status = 429)

\* The outcomes after which the fetcher does try again
RetriedPerCode(r) ==
    \/ r.kind \in {"timeout", "conn", "client", "other"}
    \/ r.kind = "response" /\ (r.status >= 500 \/ r.status = 429 \/ r.status = 408)

RetryDiscipline(Retried(_)) ==
    LET u == tasks[1]
        n == Len(fetch_log)
    IN  /\ GetsStarted <= cfg.retry_limit + 1
        /\ \A k \in 1..n : k < GetsStarted => Retried(fetch_log[k])
        /\ \A k \in 1..Len(u.sleeps) :
               u.sleeps[k] = cfg.backoff_base_ms * (2 ^ (k - 1))
        /\ u.pc = "backoff" => Len(u.sleeps) = n /\ n <= cfg.retry_limit
        /\ u.pc = "attempt" => Len(u.sleeps) = n
        /\ u.pc = "fetched" => Len(u.sleeps) = (IF n = 0 THEN 0 ELSE n - 1)

\* A GET starts only when the fetcher is called or when a backoff sleep ends
AttemptAfterSleep ==
    GetsStarted' # GetsStarted =>
        tasks[1].pc = "backoff" /\ GetsStarted' = GetsStarted + 1

\* C10 as stated: at most retry_limit + 1 GETs; another GET only after a
\* timeout, a connection failure, a 5xx or a 429; the sleep between attempt i
\* and attempt i+1 is backoff_base_ms * 2^i and ends before attempt i+1
\* starts; no sleep after the last attempt.
C10_AsStated == RetryDiscipline(RetriedPerSpec)

\* C10 amended: the same, with another GET after any failure but a 4xx
\* response other than 408 and 429 (so also after a 408 response, another
\* client error of the HTTP library, or an unclassified fault).
C10_RetryDiscipline == [](RetryDiscipline(RetriedPerCode)) /\ [][AttemptAfterSleep]_vars

\* Three attempts failed under retry_limit = 2: two sleeps, then the return.
C10_Witness ==
    /\ pc = "fetch_call"
    /\ cfg.retry_limit = 2
    /\ tasks[1].pc = "fetched"
    /\ Len(fetch_log) = 3
    /\ Len(tasks[1].sleeps) = 2
    /\ tasks[1].ret.status = 503

\* The outcome of the GET that has just ended
LastOutcome == fetch_log[Len(fetch_log)]

\* A 4xx response whose status is not one of the retried ones
Refused4xx(r, retried) ==
    r.kind = "response" /\ 400 <= r.status /\ r.status < 500 /\ r.status \notin retried

\* The step that ends a GET with such a response is the return of the fetcher:
\* that status, a message, no headers, no sleep added, and nothing after it
ReturnsAtOnce(retried) ==
    /\ (Len(fetch_log') = Len(fetch_log) + 1 /\ Refused4xx(LastOutcome', retried)) =>
           /\ tasks'[1].pc = "fetched"
           /\ tasks'[1].ret.status = LastOutcome'.status
           /\ tasks'[1].ret.ctype = <<>>
           /\ tasks'[1].ret.msg # <<>>
           /\ tasks'[1].sleeps = tasks[1].sleeps
    /\ (fetch_log # <<>> /\ Refused4xx(LastOutcome, retried)) =>
           /\ fetch_log' = fetch_log
           /\ tasks'[1].pc = "fetched"

\* C11 as stated: after a 4xx response other than 429 the fetcher makes no
\* further attempt, does not sleep and returns that status at once.
C11_AsStated == [][ReturnsAtOnce({429})]_vars

\* C11 amended: the same for every 4xx response other than 408 and 429; a 408
\* response is retried like a timeout.
C11_NoRetryOn4xx == [][ReturnsAtOnce({408, 429})]_vars

\* A 404 on the second attempt, with retries left: the fetcher has returned it.
C11_Witness ==
    /\ pc = "fetch_call"
    /\ cfg.retry_limit = 3
    /\ Len(fetch_log) = 2
    /\ fetch_log[2].kind = "response" /\ fetch_log[2].status = 404
    /\ tasks[1].pc = "fetched"
    /\ tasks[1].ret.status = 404
    /\ Len(tasks[1].sleeps) = 1

\* C12: a call of the fetcher is always at a GET, in a sleep or returned, and
\* a return after a failed last attempt carries the status of that attempt
\* (timeout 408, connection error 503, unclassified fault 500, a response its
\* own status), a message as body and no headers; a successful attempt
\* returns the response.
C12_ReturnsValue ==
    pc = "fetch_call" =>
        LET u == tasks[1] IN
        /\ u.pc \in {"attempt", "backoff", "fetched"}
        /\ ~u.raised
        /\ u.pc # "fetched" => ENABLED FetchNext
        /\ (u.pc = "fetched" /\ fetch_log = <<>>) =>
               u.ret.status = 500 /\ u.ret.msg # <<>> /\ u.ret.ctype = <<>>
        /\ (u.pc = "fetched" /\ fetch_log # <<>>) =>
               LET r == LastOutcome IN
               IF r.kind = "response" /\ r.status < 400
               THEN u.ret.status = r.status /\ u.ret.ctype = r.ctype /\ u.ret.msg = <<>>
               ELSE /\ u.ret.msg # <<>> /\ u.ret.ctype = <<>> /\ u.ret.body = <<>>
                    /\ r.kind = "response" => u.ret.status = r.status
                    /\ r.kind = "timeout" => u.ret.status = 408
                    /\ r.kind = "conn" => u.ret.status = 503
                    /\ r.kind = "other" => u.ret.status = 500

\* Both attempts allowed by retry_limit = 1 failed, the last by a timeout.
C12_Witness ==
    /\ pc = "fetch_call"
    /\ cfg.retry_limit = 1
    /\ Len(fetch_log) = 2
    /\ fetch_log[2].kind = "timeout"
    /\ tasks[1].pc = "fetched"
    /\ tasks[1].ret.status = 408
    /\ tasks[1].ret.msg # <<>>

\* The policy in force refuses the URL
Disallowed(url) == robots_parser.present /\ ~can_fetch(robots_parser.disallow, url)

\* The hrefs of the page a unit fetched
PageLinks(i) == LinksOf(cfg.site, urlparse(tasks[i].url).path)

\* An href that leads to an http(s) URL on the root's host
OnHost(i, href) ==
    /\ ~IsSkippedHref(href)
    /\ Part(NormalizedLink(tasks[i], href), "netloc") = Part(cfg.root_url, "netloc")
    /\ Part(NormalizedLink(tasks[i], href), "scheme") \in {<<"http">>, <<"https">>}

\* Unit i has fetched, recorded and expanded its page, and no fault occurred
ExpandedCleanly(i) ==
    /\ tasks[i].pc = "done"
    /\ tasks[i].depth < cfg.max_depth
    /\ tasks[i].url \in DOMAIN html_contents
    /\ tasks[i].url \notin DOMAIN errors

\* A URL the policy disallows is never dispatched and never in html_contents
DisallowedNeverFetched ==
    /\ \A i \in Units : ~Disallowed(tasks[i].url)
    /\ \A url \in DOMAIN html_contents : ~Disallowed(url)

\* C13: a URL the policy disallows is never dispatched and never in
\* html_contents, and every disallowed link of an expanded page is in errors
\* with a robots-related message.
C13_RobotsRespected ==
    /\ DisallowedNeverFetched
    /\ \A i \in Units : ExpandedCleanly(i) =>
         \A k \in 1..Len(PageLinks(i)) :
            LET href == PageLinks(i)[k]
                link == NormalizedLink(tasks[i], href)
            IN  (OnHost(i, href) /\ Disallowed(link)) =>
                    /\ link \in DOMAIN errors
                    /\ errors[link] \in {"Skipped by robots.txt (discovered link)",
                                         "Skipped by robots.txt"}

\* The links of the pages expanded so far whose path ends in a denylisted extension
ExtensionLinks ==
    UNION {{NormalizedLink(tasks[i], PageLinks(i)[k]) :
              k \in {k \in 1..Len(PageLinks(i)) :
                       /\ ~IsSkippedHref(PageLinks(i)[k])
                       /\ HasNonHtmlExtension(
                              urlparse(urljoin(tasks[i].url, PageLinks(i)[k])).path)}} :
           i \in {i \in Units : ExpandedCleanly(i)}}

\* Such a link is never enqueued, marked visited, dispatched or recorded as a page
ExtensionLinksNeverFetched ==
    \A link \in ExtensionLinks :
        /\ \A i \in Units : tasks[i].url # link
        /\ \A k \in 1..Len(queue) : queue[k].url # link
        /\ \A k \in 1..Len(cur) : cur[k].url # link
        /\ link \notin crawled_urls
        /\ link \notin DOMAIN html_contents

\* C14: a discovered link with a denylisted extension is never dispatched and
\* never enqueued, and it has a skip-related entry in errors.
C14_ExtensionSkipped ==
    /\ ExtensionLinksNeverFetched
    /\ \A link \in ExtensionLinks :
         link \in DOMAIN errors /\ errors[link] = "Skipped due to file extension"

\* The fetcher returned to unit i a 200 response that is not HTML
GotNonHtml200(i) == tasks[i].ret.status = 200 /\ tasks[i].ret.ctype = CtPlain

\* The fetcher returned to unit i a 200 response that is HTML
GotHtml200(i) == tasks[i].ret.status = 200 /\ tasks[i].ret.ctype = CtHtml

\* The messages under which the URL of a non-HTML 200 response may be recorded
NonHtmlRecorded(messages) ==
    \A i \in Units : (tasks[i].pc = "done" /\ GotNonHtml200(i)) =>
        /\ tasks[i].url \in DOMAIN errors
        /\ errors[tasks[i].url] \in messages

\* html_contents holds only URLs fetched with status 200 and an HTML Content-Type
OnlyHtml200Recorded ==
    \A url \in DOMAIN html_contents :
        \E i \in Units : tasks[i].url = url /\ GotHtml200(i)

\* The steps of a unit that got a non-HTML 200 response leave html_contents,
\* total_bytes, the queue and the visited set alone
NonHtmlInert ==
    \A i \in Units :
        (tasks'[i] # tasks[i] /\ tasks'[i].ret.status = 200 /\ tasks'[i].ret.ctype = CtPlain)
        => UNCHANGED <<html_contents, total_bytes, queue, crawled_urls>>

\* C15 as stated: a URL fetched with status 200 and a Content-Type that is not
\* HTML is recorded in errors as a skip.
C15_AsStated == NonHtmlRecorded({"Skipped: Not HTML"})

\* C15 amended: such a URL is recorded in errors, as a skip or, when the
\* observer raises on the skip event, as a processing error; it is never put
\* in html_contents, adds nothing to total_bytes and is never expanded;
\* html_contents holds only URLs fetched with status 200 and an HTML
\* Content-Type.
C15_NonHtmlSkipped ==
    /\ [](NonHtmlRecorded({"Skipped: Not HTML", "Processing Error"}))
    /\ [](OnlyHtml200Recorded)
    /\ [][NonHtmlInert]_vars

\* The observer was told of the skip and returned; the skip is recorded.
C15_Witness ==
    /\ cfg.observer
    /\ \E i \in Units :
         /\ tasks[i].pc = "done" /\ GotNonHtml200(i)
         /\ tasks[i].url \in DOMAIN errors
         /\ errors[tasks[i].url] = "Skipped: Not HTML"
         /\ tasks[i].depth < cfg.max_depth
    /\ DOMAIN html_contents # {}

\* The http(s) URLs on the root's host that the pages expanded without a fault
\* link to: the URLs reachable through successfully fetched pages
ReachableLinks ==
    UNION {{NormalizedLink(tasks[i], PageLinks(i)[k]) :
              k \in {k \in 1..Len(PageLinks(i)) : OnHost(i, PageLinks(i)[k])}} :
           i \in {i \in Units : ExpandedCleanly(i)}}

\* When crawl returns, each of the given URLs is recorded as a page or as an error
RecordedAtReturn(urls) ==
    pc = "returned" => urls \subseteq (DOMAIN html_contents \cup DOMAIN errors)

\* C16: per-URL failures are recorded and abort nothing: when crawl returns,
\* every URL reachable within max_depth through successfully fetched pages has
\* been dispatched or rejected, and is recorded in html_contents or in errors.
C16_FailuresLocal == RecordedAtReturn(ReachableLinks)

\* The same without the links that have a denylisted extension
RecordedButExtensionLinks == RecordedAtReturn(ReachableLinks \ ExtensionLinks)

\* A URL on the root's host whose scheme is http or https
HostOk(url) ==
    /\ Part(url, "netloc") = Part(cfg.root_url, "netloc")
    /\ Part(url, "scheme") \in {<<"http">>, <<"https">>}

\* Every task queued or dispatched and every recorded page, but the given URLs,
\* is on the root's host with scheme http or https
OnlySameSite(but) ==
    /\ \A x \in AllItems : x.url \in but \/ HostOk(x.url)
    /\ \A url \in crawled_urls \cup DOMAIN html_contents : url \in but \/ HostOk(url)

\* The root links to /a, /b and http://o/, max_depth is 1 and there is at least
\* one slot; every page was served as HTML and nothing failed
ScenarioAEnded ==
    /\ cfg.root_url = RootPlain /\ cfg.site = "filters"
    /\ cfg.max_depth = 1 /\ cfg.max_concurrent_tasks >= 1
    /\ pc = "returned"
    /\ DOMAIN errors = {}

ScenarioAThreePages ==
    ScenarioAEnded =>
        DOMAIN html_contents =
            {RootPlain, Str(Http, Host, PA, <<>>), Str(Http, Host, PB, <<>>)}

\* C17 as stated: only URLs on the root's host with scheme http or https are
\* ever enqueued or fetched, and scenario A ends with exactly three pages.
C17_AsStated == OnlySameSite({}) /\ ScenarioAThreePages

\* C17 amended: the same for every URL but the root itself, which is enqueued
\* and dispatched whatever its scheme.
C17_SameSiteOnly == OnlySameSite({cfg.root_url}) /\ ScenarioAThreePages

\* Scenario A with five slots has returned with its three pages.
C17_Witness ==
    /\ ScenarioAEnded
    /\ cfg.max_concurrent_tasks = 5
    /\ Cardinality(DOMAIN html_contents) = 3
    /\ Len(tasks) = 3

\* Page j, fetched and expanded without a fault, links to the URL of task i
LinksTo(j, i) ==
    /\ ExpandedCleanly(j)
    /\ \E k \in 1..Len(PageLinks(j)) :
         /\ OnHost(j, PageLinks(j)[k])
         /\ NormalizedLink(tasks[j], PageLinks(j)[k]) = tasks[i].url

\* C18: every URL is enqueued at its minimum link-hop distance from the root
\* through successfully fetched, expandable pages: the root at 0, and no URL
\* more than one level below any expanded page that links to it.
C18_MinimumDepth ==
    \A i \in Units :
        /\ tasks[i].url = cfg.root_url => tasks[i].depth = 0
        /\ \A j \in Units : LinksTo(j, i) => tasks[i].depth <= tasks[j].depth + 1

\* crawl has returned: nothing is queued or dequeued, no unit is in flight
QuiescentAtReturn ==
    pc = "returned" =>
        /\ queue = <<>> /\ cur = <<>>
        /\ InFlight = {} /\ active = {}
        /\ semaphore = (IF WellFormedRoot THEN cfg.max_concurrent_tasks ELSE 0)

\* Once crawl has returned, the result, the queue and the visited set stay as they are
FrozenAfterReturn ==
    pc = "returned" =>
        UNCHANGED <<html_contents, errors, total_bytes, queue, crawled_urls, tasks>>

\* C19: crawl returns only when the queue is empty and no unit is in flight,
\* and after it has returned no unit writes to html_contents, errors,
\* total_bytes, the queue or the visited set.
C19_ReturnsWhenQuiescent == [](QuiescentAtReturn) /\ [][FrozenAfterReturn]_vars

\* A crawl of three pages with two slots has returned.
C19_Witness ==
    /\ pc = "returned"
    /\ cfg.max_concurrent_tasks = 2
    /\ Len(tasks) = 3
    /\ Cardinality(DOMAIN html_contents) >= 2
    /\ DOMAIN errors # {}

\* The step changes the queue, the visited set, or an entry of errors other
\* than the one of unit i's own URL
WritesBeyondOwnEntry(i) ==
    \/ queue' # queue
    \/ crawled_urls' # crawled_urls
    \/ \E url \in DOMAIN errors' :
         /\ url # tasks[i].url
         /\ (url \notin DOMAIN errors \/ errors'[url] # errors[url])

\* A step of a unit that does so is the expansion of a page fetched with 200
\* and an HTML Content-Type, recorded, and above max_depth
ExpansionGuarded ==
    \A i \in Units :
        (tasks'[i] # tasks[i] /\ WritesBeyondOwnEntry(i)) =>
            /\ tasks'[i].ret.status = 200 /\ tasks'[i].ret.ctype = CtHtml
            /\ tasks[i].url \in DOMAIN html_contents'
            /\ tasks[i].depth < cfg.max_depth
            /\ Len(queue') >= Len(queue) /\ crawled_urls \subseteq crawled_urls'

\* A page at depth max_depth that was fetched with 200 and HTML is recorded
DeepestRecorded ==
    \A i \in Units :
        (tasks[i].pc = "done" /\ tasks[i].depth = cfg.max_depth /\ GotHtml200(i))
        => tasks[i].url \in DOMAIN html_contents

\* C20: links are extracted and enqueued only from a page fetched with status
\* 200 and an HTML Content-Type whose depth is below max_depth; a task at
\* depth max_depth is fetched and recorded and adds nothing to the queue, the
\* visited set or errors beyond its own entry.
C20_ExpansionGuarded == [](DeepestRecorded) /\ [][ExpansionGuarded]_vars

\* A page with links, at depth max_depth >= 1, was fetched and recorded; the
\* queue is empty.
C20_Witness ==
    /\ cfg.max_depth >= 1
    /\ queue = <<>>
    /\ \E i \in Units :
         /\ tasks[i].pc = "done" /\ tasks[i].depth = cfg.max_depth /\ GotHtml200(i)
         /\ tasks[i].url \in DOMAIN html_contents
         /\ tasks[i].url \notin DOMAIN errors
         /\ PageLinks(i) # <<>>

\* The outcome of a GET is not a 200 response
Not200(r) == r.kind # "response" \/ r.status # 200

\* robots.txt is fetched at most once and before any page task exists; a fetch
\* that fails or is not answered with 200 leaves no policy, and without a
\* policy nothing is refused for robots.txt
RobotsOnce ==
    /\ robots_gets <= 1
    /\ pc \in {"init", "robots"} => tasks = <<>> /\ queue = <<>> /\ cur = <<>>
    /\ (pc \notin {"init", "robots"} /\ cfg.respect_robots_txt /\ WellFormedRoot)
           => robots_gets = 1
    /\ \A r \in CrawlResponses, lines \in RobotsFiles :
           Not200(r) => RobotsPolicy(r, lines) = None
    /\ ~robots_parser.present =>
           \A url \in DOMAIN errors :
               errors[url] \notin {"Skipped by robots.txt",
                                   "Skipped by robots.txt (discovered link)"}

\* The step that ends the fetch of robots.txt leaves crawl in one of the given
\* places; if it goes on, the root is seeded
RobotsThenSeed(ends) ==
    pc = "robots" =>
        /\ pc' \in {"robots"} \cup ends
        /\ pc' = "loop" =>
               /\ queue' = <<Item(cfg.root_url, 0)>>
               /\ crawled_urls' = {cfg.root_url}
               /\ tasks' = <<>>

\* C21: robots.txt is fetched at most once per crawl, before any page task is
\* dispatched; when the fetch fails or returns a status other than 200 the
\* policy is absent, every URL is allowed, and the crawl goes on to seed the
\* root.
C21_RobotsNeverFatal == [](RobotsOnce) /\ [][RobotsThenSeed({"loop"})]_vars

\* The same, allowing the fetch of robots.txt to end with crawl raising
RobotsSeedsOrRaises == [](RobotsOnce) /\ [][RobotsThenSeed({"loop", "raised"})]_vars

\* The slots taken from the semaphore and not given back
SlotsHeld == cfg.max_concurrent_tasks - semaphore

\* Once the semaphore exists, the held slots are those of the units that have
\* not ended; when crawl has returned every slot is free
SlotsBalanced ==
    /\ crawled_urls # {} =>
           /\ SlotsHeld = Cardinality(InFlight)
           /\ semaphore >= 0
    /\ (pc = "returned" /\ WellFormedRoot) => semaphore = cfg.max_concurrent_tasks

\* A step gives back one slot for each unit that ends in it, takes one for the
\* unit it creates, and a unit that has ended does nothing more
ReleasedOnce ==
    /\ \A i \in Units : tasks[i].pc = "done" => tasks'[i] = tasks[i]
    /\ semaphore' - semaphore =
           Cardinality({i \in Units : tasks[i].pc # "done" /\ tasks'[i].pc = "done"})
           - (IF crawled_urls # {} THEN Len(tasks') - Len(tasks) ELSE 0)
           + (IF crawled_urls = {} /\ crawled_urls' # {} THEN cfg.max_concurrent_tasks ELSE 0)

\* C22: every dispatched unit releases its slot exactly once on every exit
\* path; the held slots are always those of the units that have not released,
\* and when the crawl is over all slots are free.
C22_SlotsReleased == [](SlotsBalanced) /\ [][ReleasedOnce]_vars

\* One unit ended in the handler with the observer raising there too, another
\* is still fetching: one slot of two is held.
C22_Witness ==
    /\ cfg.max_concurrent_tasks = 2
    /\ semaphore = 1
    /\ \E i \in Units : tasks[i].pc = "done" /\ tasks[i].raised
    /\ \E i \in Units : tasks[i].pc = "attempt"

\* The URLs waiting in the queue or dequeued and waiting for a slot
QueuedUrls == {queue[k].url : k \in 1..Len(queue)} \cup {cur[k].url : k \in 1..Len(cur)}

\* The state of the task of a URL; "None" before it is queued and after a
\* rejection at dispatch time
TaskState(url) ==
    IF \E i \in Units : tasks[i].url = url /\ tasks[i].pc = "done" THEN "Completed"
    ELSE IF \E i \in Units : tasks[i].url = url THEN "Dispatched"
    ELSE IF url \in QueuedUrls THEN "Queued"
    ELSE "None"

\* How many times a URL stands in the queue, before the semaphore or in a unit
Occurrences(url) ==
    Cardinality({k \in 1..Len(queue) : queue[k].url = url})
    + Cardinality({k \in 1..Len(cur) : cur[k].url = url})
    + Cardinality({i \in Units : tasks[i].url = url})

DispatchRejections == {"Skipped by robots.txt", "Skipped due to file extension"}

\* The coordinator's state, from what it has left to do
Phase ==
    CASE pc \in {"init", "robots"} -> "Starting"
      [] pc = "returned" -> "Done"
      [] pc = "raised" -> "Aborted"
      [] OTHER -> IF queue # <<>> \/ cur # <<>> THEN "Running" ELSE "Draining"

\* No URL is twice among the queued and dispatched tasks
TasksUnique == \A url \in crawled_urls \cup QueuedUrls : Occurrences(url) <= 1

\* A step moves every task forward; a visited URL without a task gets none
TasksForward(aborts) ==
    \A url \in crawled_urls' \cup QueuedUrls' :
        LET s == TaskState(url)
            n == TaskState(url)'
        IN  /\ s = "None" => \/ n = "None"
                             \/ n = "Queued" /\ url \notin crawled_urls
            /\ s = "Queued" => \/ n \in {"Queued", "Dispatched"}
                               \/ /\ n = "None"
                                  /\ \/ /\ url \in DOMAIN errors'
                                        /\ errors'[url] \in DispatchRejections
                                     \/ Phase' \in aborts
            /\ s = "Dispatched" => n \in {"Dispatched", "Completed"}
            /\ s = "Completed" => n = "Completed"

\* A step moves the coordinator forward; it goes back from Draining to Running
\* only when a unit in flight has enqueued
CoordinatorForward(aborts) ==
    LET p == Phase
        n == Phase'
    IN  /\ p = "Starting" => n \in {"Starting", "Running", "Done", "Aborted"}
        /\ p = "Running" => n \in {"Running", "Draining"} \cup aborts
        /\ p = "Draining" => \/ n \in {"Draining", "Done"}
                             \/ /\ n = "Running"
                                /\ Len(queue') > Len(queue)
                                /\ \E i \in InFlight : tasks'[i] # tasks[i]
        /\ p = "Done" => n = "Done" /\ UNCHANGED <<queue, cur, tasks, active>>
        /\ p = "Aborted" => n = "Aborted"

\* C23: every task moves only forward, Queued, Dispatched, Completed, or from
\* Queued to a recorded rejection, none is dispatched unqueued, completed
\* twice or queued again; the coordinator moves only Running, Draining, Done,
\* back to Running only when a unit in flight enqueues, and Done is terminal.
C23_ForwardOnly ==
    [](TasksUnique) /\ [][TasksForward({}) /\ CoordinatorForward({})]_vars

\* The same, but for crawl ending with the observer's exception
ForwardOrAborted ==
    [](TasksUnique) /\ [][TasksForward({"Aborted"}) /\ CoordinatorForward({"Aborted"})]_vars

\* The coordinator that cannot dispatch leaves the loop head only to wait or to
\* return, and leaves the wait only after a unit it waited for has completed
BlocksUntilCompletion ==
    /\ (pc = "loop" /\ ~LoopGuard /\ active # {} /\ pc' # pc) => pc' = "wait" /\ waiting' = active
    /\ (pc = "wait" /\ pc' # pc) =>
           /\ pc' = "loop"
           /\ \E t \in waiting : tasks[t].pc = "done"
    /\ (pc = "acquire" /\ pc' # pc) => semaphore > 0

\* C24: a coordinator that cannot dispatch and is not done blocks until a unit
\* in flight has completed; for every max_concurrent_tasks it never looks
\* again after a timed sleep while no unit has completed.
C24_NeverPolls == [](pc # "sleep") /\ [][BlocksUntilCompletion]_vars

\* The timed sleep is reached only by a crawl that has no slot at all
PollsOnlyWithoutSlots ==
    [](pc = "sleep" => cfg.max_concurrent_tasks = 0 /\ tasks = <<>> /\ queue # <<>>)
    /\ [][BlocksUntilCompletion]_vars

\* The UTF-8 lengths of the bodies stored under the given keys, added up
RECURSIVE StoredBytes(_)
StoredBytes(urls) ==
    IF urls = {} THEN 0
    ELSE LET url == CHOOSE x \in urls : TRUE
         IN  Utf8Len(PageText(html_contents[url])) + StoredBytes(urls \ {url})

\* C25: total_bytes is always the sum of the UTF-8 byte lengths of the bodies
\* stored in html_contents: none is counted twice, and nothing is counted for
\* a URL that is recorded in errors only.
C25_TotalBytes == total_bytes = StoredBytes(DOMAIN html_contents)

\* One document is stored under two keys and counted for each, and a URL is
\* recorded in errors only.
C25_Witness ==
    /\ \E a, b \in DOMAIN html_contents : a # b /\ html_contents[a] = html_contents[b]
    /\ DOMAIN errors \ DOMAIN html_contents # {}
    /\ total_bytes > Cardinality(DOMAIN html_contents)

\* The URLs of the units dispatched so far
DispatchedUrls == {tasks[i].url : i \in Units}

\* Every URL queued, in flight or dispatched earlier is in the visited set
VisitedCovers == QueuedUrls \cup DispatchedUrls \subseteq crawled_urls

\* A step removes nothing from the visited set, and a URL that it puts in the
\* queue is put in the visited set by that same step
VisitedGrows ==
    /\ crawled_urls \subseteq crawled_urls'
    /\ \A k \in 1..Len(queue') :
           (queue'[k].url \notin QueuedUrls \cup DispatchedUrls) =>
               queue'[k].url \in crawled_urls' \ crawled_urls

\* C26: the visited set only grows, it always contains every URL that is
\* queued, in flight or was ever dispatched, and a URL enters it in the same
\* atomic step in which it is enqueued.
C26_VisitedMonotone == [](VisitedCovers) /\ [][VisitedGrows]_vars

\* A discovered link is queued, the root's unit has ended, both are visited.
C26_Witness ==
    /\ \E k \in 1..Len(queue) : queue[k].depth = 1 /\ queue[k].url \in crawled_urls
    /\ \E i \in Units : tasks[i].pc = "done" /\ tasks[i].url = cfg.root_url
    /\ Cardinality(crawled_urls) >= 3

\* C27: when a crawl of a well-formed root has returned, every URL of the
\* visited set is a key of html_contents or of errors, whichever path its
\* task took.
C27_EveryVisitedRecorded ==
    (pc = "returned" /\ WellFormedRoot) =>
        crawled_urls \subseteq DOMAIN html_contents \cup DOMAIN errors

\* A crawl has returned with a page stored, a unit ended by a processing
\* fault and a URL skipped as not HTML.
C27_Witness ==
    /\ pc = "returned" /\ WellFormedRoot
    /\ Cardinality(crawled_urls) >= 3
    /\ DOMAIN html_contents # {}
    /\ \E url \in crawled_urls : url \in DOMAIN errors /\ errors[url] = "Processing Error"
    /\ \E url \in crawled_urls : url \in DOMAIN errors /\ errors[url] = "Skipped: Not HTML"

\* The task dequeued and waiting for a slot, then the tasks in the queue
Frontier == cur \o queue

\* Every task but the root passed the three filters before it was enqueued
FrontierFiltered ==
    \A k \in 1..Len(Frontier) :
        LET item == Frontier[k] IN
        item # Item(cfg.root_url, 0) =>
            /\ item.depth >= 1
            /\ ~HasNonHtmlExtension(urlparse(item.url).path)
            /\ HostOk(item.url)
            /\ ~Disallowed(item.url)

\* A dequeued task that is not the root goes on to the semaphore and from
\* there to a unit of its own; a task that is dropped at the dequeue is the root
OnlyRootRejected ==
    /\ Len(queue') < Len(queue) =>
           /\ queue' = Tail(queue)
           /\ (cur' = <<>> \/ pc' # "acquire") => Head(queue) = Item(cfg.root_url, 0)
           /\ Head(queue) # Item(cfg.root_url, 0) => cur' = <<Head(queue)>> /\ pc' = "acquire"
    /\ (cur # <<>> /\ cur' # cur) =>
           /\ cur' = <<>>
           /\ tasks' = Append(tasks, NewUnit(cur[1].url, cur[1].depth))

\* C28: every task in the queue other than the root passed the extension
\* list, the same-host and scheme filter and the robots policy before it was
\* enqueued, so the rejections at the dequeue fire only for the root, and
\* every other dequeued task is dispatched to the fetcher.
C28_OnlyRootRejected == [](FrontierFiltered) /\ [][OnlyRootRejected]_vars

\* Under a robots policy a discovered link was refused at discovery and a
\* task of depth 1 has been dequeued and dispatched.
C28_Witness ==
    /\ robots_parser.present
    /\ \E i \in Units : tasks[i].depth = 1
    /\ \E url \in DOMAIN errors : errors[url] = "Skipped by robots.txt (discovered link)"

\* The tasks in the order of their dispatch, then the frontier in its order
DispatchOrder == [i \in Units |-> Item(tasks[i].url, tasks[i].depth)] \o Frontier

IsPrefix(s, t) == Len(s) <= Len(t) /\ \A k \in 1..Len(s) : s[k] = t[k]

\* Tasks are appended at the end of the order and dispatched from the head of
\* the frontier; only a root rejected at the dequeue leaves the order
KeepsOrder ==
    \/ IsPrefix(DispatchOrder, DispatchOrder')
    \/ DispatchOrder = <<Item(cfg.root_url, 0)>> /\ DispatchOrder' = <<>>

\* One unit at a time, the depths never decrease along the order, and no task
\* is more than one level below an expanded page that links to it
BreadthFirst ==
    /\ Cardinality(InFlight) <= 1
    /\ \A k \in 1..Len(DispatchOrder) - 1 :
           DispatchOrder[k].depth <= DispatchOrder[k + 1].depth
    /\ \A i \in Units :
           /\ tasks[i].url = cfg.root_url => tasks[i].depth = 0
           /\ \A j \in Units : LinksTo(j, i) => tasks[i].depth <= tasks[j].depth + 1

\* C29: with max_concurrent_tasks = 1 the tasks are dispatched in the order
\* they were enqueued and one at a time, so the depths of the dispatched
\* tasks never decrease and every URL is enqueued at its minimum link-hop
\* depth from the root.
C29_SequentialBreadthFirst ==
    /\ [](cfg.max_concurrent_tasks = 1 => BreadthFirst)
    /\ [][cfg.max_concurrent_tasks = 1 => KeepsOrder]_vars

\* One slot: a page linked from a page of depth 1 and from a page of depth 2
\* was dispatched at depth 2.
C29_Witness ==
    /\ cfg.max_concurrent_tasks = 1
    /\ \E i, j, k \in Units :
           /\ LinksTo(j, i) /\ LinksTo(k, i)
           /\ tasks[j].depth = 1 /\ tasks[k].depth = 2
           /\ tasks[i].depth = 2

\* Once the semaphore exists its value is at least the limit less the size of
\* the active set, and it is at least 1 whenever the coordinator is at the acquire
AcquireNeverBlocks ==
    crawled_urls # {} =>
        /\ semaphore >= cfg.max_concurrent_tasks - Cardinality(active)
        /\ pc = "acquire" => semaphore >= 1

\* A unit gives its slot back no later than it leaves the active set
ReleasedBeforeDiscarded ==
    \A i \in active \ active' : tasks[i].pc = "done" /\ semaphore' = semaphore

\* C30: whenever the coordinator reaches the acquire the semaphore's value is
\* at least 1, so the acquire never blocks: the value is always at least
\* max_concurrent_tasks less the size of the active set, because a unit
\* releases its slot before it is removed from the active set.
C30_AcquireNeverBlocks == [](AcquireNeverBlocks) /\ [][ReleasedBeforeDiscarded]_vars

\* The coordinator is at the acquire while a unit that has ended and released
\* its slot is still in the active set, and another unit is in flight.
C30_Witness ==
    /\ pc = "acquire"
    /\ semaphore > cfg.max_concurrent_tasks - Cardinality(active)
    /\ \E i \in active : tasks[i].pc = "done"
    /\ \E i \in active : tasks[i].pc # "done"

====
